---- MODULE Spec2Model ----
(***************************************************************************)
(* LesserPanda engine: the fixed-step game loop (engine/game.js) and the   *)
(* physics world (World, CollisionSolver, Body).                           *)
(*                                                                         *)
(* Numbers.  JavaScript numbers are doubles.  Where every value is one a   *)
(* double represents exactly and every operation is exact on them, the     *)
(* model computes with integers:                                           *)
(*   - SpecGame, SpecScene: timestamps are whole milliseconds and          *)
(*     desiredFPS is one for which step = 1000 / desiredFPS is whole, so   *)
(*     the accumulator is a whole number of milliseconds;                  *)
(*   - SpecWorld, SpecOwners, SpecAddRemove, SpecSceneWorld, SpecCollide,  *)
(*     SpecSolver: coordinates are multiples of 1/2 and are kept doubled,  *)
(*     so that the half extents width/2, height/2 of the solver are whole. *)
(* Where rounding takes part (a step that is not whole, the seconds passed *)
(* to the callbacks, decimal coordinates) the model computes in doubles,   *)
(* see Plus, Minus, Times, Quotient below (SpecPrecise, SpecElapsed,       *)
(* SpecDecimal).                                                           *)
(***************************************************************************)
EXTENDS Integers, Sequences, FiniteSets, TLC

VARIABLES
  \* ---- Game.updateInfo (game.js 33-43) and Game.desiredFPS (game.js 20)
  desiredFPS,   \* this.desiredFPS, constant during a run of the model
  spiraling,    \* updateInfo.spiraling
  last,         \* updateInfo.last (ms)
  realDelta,    \* updateInfo.realDelta (ms)
  deltaTime,    \* updateInfo.deltaTime (ms)
  lastCount,    \* updateInfo.lastCount
  count,        \* updateInfo.count
  \* ---- observation of the callbacks of the latest run(timestamp)
  calls,        \* the fixedUpdate/update invocations of the latest tick, in order
  hist,         \* the last three ticks: spiraling before, count before/after
  \* ---- physics: the bodies and the worlds
  body,             \* body[b]: the fields of Body b
  bodies,           \* bodies[w]: World.bodies of world w, a list
  collisionGroups,  \* collisionGroups[w]: World.collisionGroups, group -> list
  \* ---- observation of the latest physics operation
  trace,            \* what the latest World.update did, in order
  thrown,           \* the latest World.update ended by throwing a TypeError
  op                \* the latest operation: a removal, an update, or another

gameVars == <<desiredFPS, spiraling, last, realDelta, deltaTime, lastCount, count,
              calls, hist>>

worldVars == <<body, bodies, collisionGroups, trace, thrown, op>>

vars == <<gameVars, worldVars>>

Max(a, b) == IF a >= b THEN a ELSE b
Min(a, b) == IF a <= b THEN a ELSE b

(***************************************************************************)
(* JavaScript numbers are IEEE 754 doubles.  Where rounding matters the    *)
(* model computes as the doubles do.  A number is its sign and its         *)
(* magnitude, a whole number of units of 2^-80 written with Limbs digits   *)
(* of base Base = 2^20, the least significant digit first (so the last     *)
(* digit holds the whole part).  An operation forms the exact result and   *)
(* rounds it to Precision significant bits, ties to even.  Every value the *)
(* specifications below compute is a multiple of 2^-80 below 2^20, far     *)
(* inside the range of the normal doubles: neither overflow nor subnormal  *)
(* numbers occur.                                                          *)
(***************************************************************************)
\* the significand of a double, in bits
Precision == 53
Base == 1048576
BaseBits == 20
Limbs == 5

NoMag == [i \in 1..Limbs |-> 0]

RECURSIVE CarryInto(_, _, _)
CarryInto(x, y, i) ==
  IF i = 1 THEN 0 ELSE (x[i - 1] + y[i - 1] + CarryInto(x, y, i - 1)) \div Base

AddMag(x, y) == [i \in 1..Limbs |-> (x[i] + y[i] + CarryInto(x, y, i)) % Base]

RECURSIVE BorrowInto(_, _, _)
BorrowInto(x, y, i) ==
  IF i = 1 THEN 0
  ELSE IF x[i - 1] - y[i - 1] - BorrowInto(x, y, i - 1) < 0 THEN 1 ELSE 0

\* x - y for x >= y
SubMag(x, y) ==
  [i \in 1..Limbs |-> (x[i] - y[i] - BorrowInto(x, y, i) + Base) % Base]

LessMag(x, y) ==
  \E i \in 1..Limbs : x[i] < y[i] /\ \A j \in (i + 1)..Limbs : x[j] = y[j]

\* the number of bits of x
BitLength(x) ==
  IF x = NoMag THEN 0
  ELSE LET top == CHOOSE i \in 1..Limbs : x[i] # 0 /\ \A j \in (i + 1)..Limbs : x[j] = 0
           bits == CHOOSE k \in 1..BaseBits : 2^(k - 1) <= x[top] /\ x[top] < 2^k
       IN BaseBits * (top - 1) + bits

\* bit p of x, the lowest bit being bit 1
Bit(x, p) == (x[(p - 1) \div BaseBits + 1] \div 2^((p - 1) % BaseBits)) % 2

\* x mod 2^d
Low(x, d) ==
  [i \in 1..Limbs |->
     IF BaseBits * i <= d THEN x[i]
     ELSE IF BaseBits * (i - 1) < d THEN x[i] % 2^(d - BaseBits * (i - 1))
     ELSE 0]

\* 2^d
Pow(d) == [i \in 1..Limbs |-> IF d \div BaseBits + 1 = i THEN 2^(d % BaseBits) ELSE 0]

\* Round to nearest, ties to even; sticky tells that the exact value has
\* nonzero bits below the lowest bit of x.
RoundMag(x, sticky) ==
  IF BitLength(x) <= Precision THEN x
  ELSE LET d == BitLength(x) - Precision
           rest == Low(x, d)
           half == Pow(d - 1)
           down == SubMag(x, rest)
           up == \/ LessMag(half, rest)
                 \/ rest = half /\ (sticky \/ Bit(x, d + 1) = 1)
       IN IF up THEN AddMag(down, Pow(d)) ELSE down

Zero == [neg |-> FALSE, mag |-> NoMag]

\* the double of a whole number
Number(n) ==
  [neg |-> n < 0,
   mag |-> [i \in 1..Limbs |-> IF i = Limbs THEN (IF n < 0 THEN -n ELSE n) ELSE 0]]

Negate(x) == IF x = Zero THEN x ELSE [x EXCEPT !.neg = ~x.neg]

\* the exact sum
Sum(x, y) ==
  IF x.neg = y.neg THEN [neg |-> x.neg, mag |-> AddMag(x.mag, y.mag)]
  ELSE IF x.mag = y.mag THEN Zero
  ELSE IF LessMag(x.mag, y.mag) THEN [neg |-> y.neg, mag |-> SubMag(y.mag, x.mag)]
  ELSE [neg |-> x.neg, mag |-> SubMag(x.mag, y.mag)]

Rounded(x) == [x EXCEPT !.mag = RoundMag(x.mag, FALSE)]

\* x + y, x - y, x < y, x <= y in doubles
Plus(x, y) == Rounded(Sum(x, y))
Minus(x, y) == Plus(x, Negate(y))
Less(x, y) ==
  IF x.neg # y.neg THEN x.neg
  ELSE IF x.neg THEN LessMag(y.mag, x.mag)
  ELSE LessMag(x.mag, y.mag)
LessEq(x, y) == ~Less(y, x)

RECURSIVE MulCarryInto(_, _, _)
MulCarryInto(x, k, i) ==
  IF i = 1 THEN 0 ELSE (x[i - 1] * k + MulCarryInto(x, k, i - 1)) \div Base

MulMag(x, k) == [i \in 1..Limbs |-> (x[i] * k + MulCarryInto(x, k, i)) % Base]

\* x * k in doubles, for a whole k, -2048 < k < 2048
Times(x, k) ==
  IF x = Zero \/ k = 0 THEN Zero
  ELSE [neg |-> x.neg # (k < 0),
        mag |-> RoundMag(MulMag(x.mag, IF k < 0 THEN -k ELSE k), FALSE)]

\* long division by a whole d, 0 < d < 2048: what is left of the digits
\* x[Limbs], ..., x[i]
RECURSIVE LeftOver(_, _, _)
LeftOver(x, d, i) ==
  IF i > Limbs THEN 0 ELSE (LeftOver(x, d, i + 1) * Base + x[i]) % d

\* n / d in doubles, for whole n and d
Quotient(n, d) ==
  LET x == Number(n).mag
      q == [i \in 1..Limbs |-> (LeftOver(x, d, i + 1) * Base + x[i]) \div d]
  IN [neg |-> n < 0, mag |-> RoundMag(q, LeftOver(x, d, 1) # 0)]

\* the literal 0.001
Milli == Quotient(1, 1000)

\* x / 2, exact (the lowest bit of x is 0)
Half(x) ==
  [x EXCEPT !.mag = [i \in 1..Limbs |->
     x.mag[i] \div 2 + (IF i < Limbs THEN (x.mag[i + 1] % 2) * (Base \div 2) ELSE 0)]]

(***************************************************************************)
(* Bounds of the scheduler model.                                          *)
(***************************************************************************)
\* timestamps are the multiples of Quantum up to MaxTick*Quantum, and one late
\* timestamp StallStamp that makes a stall of more than a second.
Quantum == 5
MaxTick == 8
StallStamp == 1010

Stamps == {k * Quantum : k \in 0..MaxTick} \cup {StallStamp}

\* desiredFPS values tried: 50 (step 20 ms) and 250 (step 4 ms).
FPSChoices == {50, 250}

(***************************************************************************)
(* Game.prototype.run                                                      *)
(***************************************************************************)
\* game.js 70: updateInfo.step = 1000.0 / this.desiredFPS, a whole number for
\* the values of FPSChoices.
Step(fps) == 1000 \div fps

\* core.speed (engine/core), the global time scale.
speed == 1

\* game.js 63: the logic time is spiraling upwards.
IsSpiralingMutant(s) == s > 2
IsSpiraling(s) == s > 1

\* game.js 75: the time credited to the accumulator in one tick,
\* Math.max(Math.min(step * 3, realDelta), 0).
Credit(step, rd) == Max(Min(step * 3, rd), 0)

\* game.js 81-88: the catch-up loop; <<deltaTime, count>> when it ends.
RECURSIVE CatchUp(_, _, _)
CatchUp(dt, step, n) ==
  IF dt >= step THEN CatchUp(dt - step, step, n + 1) ELSE <<dt, n>>

\* game.js 71-72, 85: one fixedUpdate(slowStep, slowStepSec) invocation, with
\* slowStep = step * core.speed and slowStepSec = step * 0.001 * core.speed.
FixedCall(step) ==
  [fn |-> "fixedUpdate", delta |-> step * speed,
   deltaSec |-> Times(Times(Milli, step), speed)]

\* game.js 103: this.update(realDelta, realDelta * 0.001).
IdleCallsOnlyWhenStepping(rd, skipped) ==
  IF skipped THEN << >>
  ELSE << [fn |-> "update", delta |-> rd, deltaSec |-> Times(Milli, rd)] >>
IdleCalls(rd, skipped) ==
  << [fn |-> "update", delta |-> rd, deltaSec |-> Times(Milli, rd)] >>

\* game.js 91-97: spiral detection.
Detect(s, n, lc) ==
  IF n > lc THEN s + 1
  ELSE IF n < lc THEN 0
  ELSE s

\* hist keeps the last three ticks.
Push(h, e) == IF Len(h) < 3 THEN Append(h, e) ELSE Append(Tail(h), e)

Run(timestamp) ==
  LET rd == IF last > 0 THEN timestamp - last ELSE realDelta
      skipped == IsSpiraling(spiraling)
      step == Step(desiredFPS)
      r == CatchUp(deltaTime + Credit(step, rd), step, 0)
  IN /\ realDelta' = rd
     /\ last' = timestamp
     /\ IF skipped
        THEN /\ deltaTime' = 0
             /\ spiraling' = 0
             /\ UNCHANGED <<count, lastCount>>
        ELSE /\ deltaTime' = r[1]
             /\ count' = r[2]
             /\ spiraling' = Detect(spiraling, r[2], lastCount)
             /\ lastCount' = r[2]
     /\ calls' = (IF skipped THEN << >> ELSE [i \in 1..r[2] |-> FixedCall(step)])
                 \o IdleCalls(rd, skipped)
     /\ hist' = Push(hist, [sp0 |-> spiraling, c0 |-> count, c1 |-> count'])
     /\ UNCHANGED desiredFPS
     /\ UNCHANGED <<body, bodies, collisionGroups, trace, thrown, op>>

\* game.js 12-44: the constructor.  No physics world exists in the
\* scheduler's specification.
GameInit ==
  /\ desiredFPS \in FPSChoices
  /\ spiraling = 0
  /\ last = -1
  /\ realDelta = 0
  /\ deltaTime = 0
  /\ lastCount = 0
  /\ count = 0
  /\ calls = << >>
  /\ hist = << >>
  /\ body = << >>
  /\ bodies = << >>
  /\ collisionGroups = << >>
  /\ trace = << >>
  /\ thrown = FALSE
  /\ op = [name |-> "other", arg |-> "none", unowned |-> FALSE]

GameNext == \E timestamp \in Stamps : Run(timestamp)

SpecGame == GameInit /\ [][GameNext]_vars

(***************************************************************************)
(* The life of a scene: constructed, then activated (awake), ticked by     *)
(* run(timestamp) while it is active, deactivated (freeze) when the game   *)
(* switches to another scene, and possibly activated again.  calls holds   *)
(* what the latest operation emitted.                                      *)
(***************************************************************************)
Emitted(name) == << [fn |-> name, delta |-> 0, deltaSec |-> Zero] >>

\* The scene is active: awake was called on it and freeze has not been since.
Active == calls # << >> /\ calls # Emitted("freeze")

\* game.js 111-119: Game.prototype.awake wakes the systems and emits 'awake'.
Awake ==
  /\ ~Active
  /\ calls' = Emitted("awake")
  /\ UNCHANGED <<desiredFPS, spiraling, last, realDelta, deltaTime, lastCount, count,
                 hist>>
  /\ UNCHANGED <<body, bodies, collisionGroups, trace, thrown, op>>

\* game.js 156-164: Game.prototype.freeze freezes the systems and emits
\* 'freeze'.
FreezeScene ==
  /\ Active
  /\ calls' = Emitted("freeze")
  /\ UNCHANGED <<desiredFPS, spiraling, last, realDelta, deltaTime, lastCount, count,
                 hist>>
  /\ UNCHANGED <<body, bodies, collisionGroups, trace, thrown, op>>

\* run(timestamp) of an active scene, the timestamps not decreasing.
Tick ==
  /\ Active
  /\ \E timestamp \in Stamps : timestamp >= last /\ Run(timestamp)

SceneNext == Awake \/ Tick \/ FreezeScene

SpecScene == GameInit /\ [][SceneNext]_vars

NumFixed(cs) == Cardinality({i \in 1..Len(cs) : cs[i].fn = "fixedUpdate"})
NumIdle(cs) == Cardinality({i \in 1..Len(cs) : cs[i].fn = "update"})
Ticked == Len(hist) > 0

(***************************************************************************)
(* Game.prototype.run computed in doubles: deltaTime is a double here,     *)
(* timestamps and realDelta are whole milliseconds.                        *)
(***************************************************************************)
\* The first tick comes at one of Paces, every later tick one of Paces after
\* the tick before, up to the timestamp MaxStamp.
Paces == {5, 1000}
MaxStamp == 1130

\* desiredFPS values tried: the default 60 and 144.
PreciseFPS == {60, 144}

\* game.js 70: updateInfo.step = 1000.0 / this.desiredFPS.
StepOf(fps) == Quotient(1000, fps)

\* game.js 75: Math.max(Math.min(step * 3, realDelta), 0).
CreditOf(step, rd) ==
  LET cap == Times(step, 3)
      least == IF Less(Number(rd), cap) THEN Number(rd) ELSE cap
  IN IF Less(least, Zero) THEN Zero ELSE least

\* game.js 81-88: the catch-up loop; <<deltaTime, count>> when it ends.
RECURSIVE CatchUpOfAtMostThrice(_, _, _)
CatchUpOfAtMostThrice(dt, step, n) ==
  IF LessEq(step, dt) /\ n < 3
  THEN CatchUpOfAtMostThrice(Minus(dt, step), step, n + 1)
  ELSE <<dt, n>>
RECURSIVE CatchUpOf(_, _, _)
CatchUpOf(dt, step, n) ==
  IF LessEq(step, dt) THEN CatchUpOf(Minus(dt, step), step, n + 1) ELSE <<dt, n>>

\* game.js 85: one fixedUpdate(slowStep, slowStepSec) invocation; of its
\* arguments slowStep = step * core.speed is kept.
FixedCallOf(step) == [fn |-> "fixedUpdate", delta |-> Times(step, speed)]

\* game.js 54-104: what run(timestamp) does to updateInfo and the callbacks
\* it invokes.
TickInDoubles(timestamp) ==
  LET rd == IF last > 0 THEN timestamp - last ELSE realDelta
      skipped == IsSpiraling(spiraling)
      step == StepOf(desiredFPS)
      r == CatchUpOf(Plus(deltaTime, CreditOf(step, rd)), step, 0)
  IN /\ realDelta' = rd
     /\ last' = timestamp
     /\ IF skipped
        THEN /\ deltaTime' = Zero
             /\ spiraling' = 0
             /\ UNCHANGED <<count, lastCount>>
        ELSE /\ deltaTime' = r[1]
             /\ count' = r[2]
             /\ spiraling' = Detect(spiraling, r[2], lastCount)
             /\ lastCount' = r[2]
     /\ calls' = (IF skipped THEN << >> ELSE [i \in 1..r[2] |-> FixedCallOf(step)])
                 \o IdleCalls(rd, skipped)
     /\ UNCHANGED desiredFPS

RunInDoubles(timestamp) ==
  /\ TickInDoubles(timestamp)
  /\ hist' = Push(hist, [sp0 |-> spiraling, c0 |-> count, c1 |-> count'])
  /\ UNCHANGED <<body, bodies, collisionGroups, trace, thrown, op>>

PreciseInit ==
  /\ desiredFPS \in PreciseFPS
  /\ spiraling = 0
  /\ last = -1
  /\ realDelta = 0
  /\ deltaTime = Zero
  /\ lastCount = 0
  /\ count = 0
  /\ calls = << >>
  /\ hist = << >>
  /\ body = << >>
  /\ bodies = << >>
  /\ collisionGroups = << >>
  /\ trace = << >>
  /\ thrown = FALSE
  /\ op = [name |-> "other", arg |-> "none", unowned |-> FALSE]

PreciseNext ==
  \E pace \in Paces :
    /\ Max(last, 0) + pace <= MaxStamp
    /\ RunInDoubles(Max(last, 0) + pace)

SpecPrecise == PreciseInit /\ [][PreciseNext]_vars

(***************************************************************************)
(* Game.prototype.run in doubles, with the simulated time kept beside it:  *)
(* every entry of hist also tells the timestamp of the first tick, the     *)
(* number of fixed updates made since the construction, and the sum of the *)
(* deltas they were given, added up as a callback would (clock += delta).  *)
(***************************************************************************)
\* Ticks come at the timestamps up to MaxElapsed, each one of ElapsedPaces
\* after the tick before; the first tick comes at 1.
MaxElapsed == 201
ElapsedPaces == {5, 25}

\* desiredFPS values tried: 35 and 70, whose step is not a double.
ElapsedFPS == {35, 70}

\* clock after n more fixed updates, each adding its delta
RECURSIVE Advance(_, _, _)
Advance(clock, delta, n) ==
  IF n = 0 THEN clock ELSE Advance(Plus(clock, delta), delta, n - 1)

RunObserved(timestamp) ==
  LET before == IF hist = << >>
                THEN [first |-> timestamp, fixed |-> 0, clock |-> Zero]
                ELSE hist[Len(hist)]
  IN /\ TickInDoubles(timestamp)
     /\ hist' = Push(hist, [sp0 |-> spiraling, c0 |-> count, c1 |-> count',
                            first |-> before.first,
                            fixed |-> before.fixed + NumFixed(calls'),
                            clock |-> Advance(before.clock,
                                              Times(StepOf(desiredFPS), speed),
                                              NumFixed(calls'))])
     /\ UNCHANGED <<body, bodies, collisionGroups, trace, thrown, op>>

ElapsedInit ==
  /\ desiredFPS \in ElapsedFPS
  /\ spiraling = 0
  /\ last = -1
  /\ realDelta = 0
  /\ deltaTime = Zero
  /\ lastCount = 0
  /\ count = 0
  /\ calls = << >>
  /\ hist = << >>
  /\ body = << >>
  /\ bodies = << >>
  /\ collisionGroups = << >>
  /\ trace = << >>
  /\ thrown = FALSE
  /\ op = [name |-> "other", arg |-> "none", unowned |-> FALSE]

ElapsedNext ==
  \/ last = -1 /\ RunObserved(1)
  \/ \E pace \in ElapsedPaces :
       /\ last > 0
       /\ last + pace <= MaxElapsed
       /\ RunObserved(last + pace)

SpecElapsed == ElapsedInit /\ [][ElapsedNext]_vars

(***************************************************************************)
(* Properties of the game loop.                                            *)
(***************************************************************************)
LastTick == hist[Len(hist)]

\* C1: one run(timestamp) invokes the fixed-update callback at most 3 times,
\* however large the tick's realDelta is.  Checked under SpecPrecise.
C1_CatchUpCap == NumFixed(calls) <= 3

\* The count field rose in the tick recorded as e (a skipped tick leaves it).
Rose(e) == e.c1 > e.c0

\* Two ticks in a row raised the iteration count, the first starting with
\* spiraling = 0, and a third tick has run since.
TwoRises ==
  /\ Len(hist) = 3
  /\ hist[1].sp0 = 0
  /\ Rose(hist[1])
  /\ Rose(hist[2])

\* C2: when the iteration count rose on two consecutive ticks, starting from
\* spiraling = 0, the third tick zeroes the accumulator, resets spiraling to 0
\* and invokes no fixed update.  Checked under SpecGame.
C2_SpiralReset ==
  TwoRises => /\ deltaTime = 0
              /\ spiraling = 0
              /\ NumFixed(calls) = 0

\* The third tick after two rises, arriving with a realDelta of a step or
\* more, which a normal tick would have credited.
C2_Witness ==
  /\ TwoRises
  /\ realDelta >= Step(desiredFPS)
  /\ deltaTime = 0
  /\ NumFixed(calls) = 0

\* The callbacks of the latest tick are fixed updates followed by one update
\* whose arguments are realDelta and sec.
OneIdleLast(sec) ==
  /\ NumIdle(calls) = 1
  /\ calls[Len(calls)] = [fn |-> "update", delta |-> realDelta, deltaSec |-> sec]
  /\ \A i \in 1..(Len(calls) - 1) : calls[i].fn = "fixedUpdate"

\* C3, as the code has it: every run(timestamp) invokes the variable update
\* exactly once, with (realDelta, realDelta * 0.001), the product rounded as
\* a double, after every fixed update of the tick, on a normal tick and on a
\* skipped (spiral reset) tick alike.  Checked under SpecGame.
C3_IdleOncePerTick == Ticked => OneIdleLast(Times(Milli, realDelta))

\* C3, as stated: every run(timestamp) invokes the variable update exactly
\* once, with (realDelta, realDelta / 1000), after every fixed update of the
\* tick, on a normal tick and on a skipped tick alike.
C3_IdleWithQuotient == Ticked => OneIdleLast(Quotient(realDelta, 1000))

\* A skipped tick (spiraling was above 1) whose only callback is the update,
\* with a realDelta a normal tick would have answered by fixed updates.
C3_Witness ==
  /\ Ticked
  /\ IsSpiraling(LastTick.sp0)
  /\ realDelta >= Step(desiredFPS)
  /\ Len(calls) = 1
  /\ calls[1].fn = "update"
  /\ calls[1].delta = realDelta

\* C14: with a constant positive desiredFPS and non-decreasing timestamps,
\* after every run(timestamp) the accumulator satisfies
\* 0 <= deltaTime < step: no catch-up work is carried over.  Checked under
\* SpecPrecise, the accumulator being a double.
C14_AccumulatorBelowStep ==
  Ticked => /\ LessEq(Zero, deltaTime)
            /\ Less(deltaTime, StepOf(desiredFPS))

\* A tick after a stall: its credit was capped at three steps and it leaves a
\* positive remainder below one step.
C14_Witness ==
  /\ Ticked
  /\ realDelta = 1000
  /\ NumFixed(calls) >= 3
  /\ Less(Zero, deltaTime)
  /\ Less(deltaTime, StepOf(desiredFPS))

\* C19: the scheduler's record (last, deltaTime, spiraling, lastCount) is
\* initialised anew whenever the scene becomes active: the run(timestamp)
\* that follows awake() behaves like a very first tick, with realDelta 0, no
\* accumulated time left, spiraling 0 and no fixed update.  Checked under
\* SpecScene.
C19_Step ==
  (calls = Emitted("awake") /\ calls'[Len(calls')].fn = "update") =>
    /\ realDelta' = 0
    /\ deltaTime' = 0
    /\ spiraling' = 0
    /\ NumFixed(calls') = 0

C19_AwakeStartsAnew == [][C19_Step]_vars

\* The exact product n * x of a whole n and a double x >= 0 is above the
\* whole number t.
ProductAbove(n, x, t) == LessMag(Number(t).mag, MulMag(x.mag, n))

Null == << >>
Some(g) == <<g>>
NoWorld == "null"

\* new Rectangle(width, height), new Circle(radius), an object that is neither
\* (no width, no radius: an unknown shape), and shape = null, the Body default.
Rectangle(w, h) == [kind |-> "Rectangle", width |-> w, height |-> h]
Circle(r) == [kind |-> "Circle", radius |-> r]
UnknownShape == [kind |-> "Object"]
NullShape == [kind |-> "null"]

Vec(x, y) == [x |-> x, y |-> y]

\* Reading a property of shape throws a TypeError when shape is null.
ReadThrows(shape) == shape.kind = "null"

\* shape.width / shape.radius is truthy: the property exists and is not 0.
Truthy(shape, name) == name \in DOMAIN shape /\ shape[name] # 0

(***************************************************************************)
(* CollisionSolver.prototype.hitTest: "true", "false", or "TypeError" when *)
(* the call throws.                                                        *)
(***************************************************************************)
Bool(v) == IF v THEN "true" ELSE "false"

\* part_000 175-180: rectangle against rectangle.
RectRectHit(a, b) ==
  ~ \/ a.position.y + a.shape.height <= b.position.y - b.shape.height
    \/ a.position.y - a.shape.height >= b.position.y + b.shape.height
    \/ a.position.x - a.shape.width >= b.position.x + b.shape.width
    \/ a.position.x + a.shape.width <= b.position.x - b.shape.width

\* part_000 184: a.radius + b.radius > a.position.distance(b.position), compared
\* on squares (doubled coordinates: the doubled distance against twice the sum).
CircleCircleHit(a, b) ==
  LET sum == 2 * (a.shape.radius + b.shape.radius)
      dx == a.position.x - b.position.x
      dy == a.position.y - b.position.y
  IN sum > 0 /\ sum * sum > dx * dx + dy * dy

\* part_000 188-195: rectangle against circle.
RectCircleHit(rect, circle) ==
  LET x == Max(rect.position.x - rect.shape.width,
               Min(rect.position.x + rect.shape.width, circle.position.x))
      y == Max(rect.position.y - rect.shape.height,
               Min(rect.position.y + rect.shape.height, circle.position.y))
      dx == circle.position.x - x
      dy == circle.position.y - y
  IN dx * dx + dy * dy < 4 * circle.shape.radius * circle.shape.radius

\* a.shape.<p> && b.shape.<q>: "TypeError" when a read throws, else the
\* truthiness of the conjunction; b.shape is not read when a's property is falsy.
AndReads(a, p, b, q) ==
  IF ReadThrows(a.shape) THEN "TypeError"
  ELSE IF ~Truthy(a.shape, p) THEN "false"
  ELSE IF ReadThrows(b.shape) THEN "TypeError"
  ELSE Bool(Truthy(b.shape, q))

hitTest(a, b) ==
  LET rr == AndReads(a, "width", b, "width")
      cc == AndReads(a, "radius", b, "radius")
      rc == AndReads(a, "width", b, "radius")
      cr == AndReads(a, "radius", b, "width")
  IN IF rr = "TypeError" THEN "TypeError"
     ELSE IF rr = "true" THEN Bool(RectRectHit(a, b))
     ELSE IF cc = "TypeError" THEN "TypeError"
     ELSE IF cc = "true" THEN Bool(CircleCircleHit(a, b))
     ELSE IF rc = "TypeError" THEN "TypeError"
     ELSE IF rc = "true" THEN Bool(RectCircleHit(a, b))
     ELSE IF cr = "TypeError" THEN "TypeError"
     ELSE IF cr = "true" THEN Bool(RectCircleHit(b, a))
     ELSE "false"

(***************************************************************************)
(* CollisionSolver.prototype.hitResponse.                                  *)
(*                                                                         *)
(* The result is a record: a (the body a afterwards), result ("true",      *)
(* "undefined" when the function falls off its end, "TypeError" when it    *)
(* throws), called (whether a.collide was invoked) and dir (the second     *)
(* argument a.collide got: a direction, "undefined" for 'inside', or the   *)
(* angle of a circle pair).                                                *)
(***************************************************************************)
\* Body.prototype.collide: the default returns true; a body whose class
\* overrides it to veto the response has accepts = FALSE.
BodyCollide(a, b, dir) == a.accepts

\* part_000 210, 215, 220, 225: the direction of a rectangle pair, decided on
\* the last positions in the order DOWN, UP, RIGHT, LEFT; "undefined" is 'inside'.
DirectionSidesFirst(a, b) ==
  IF a.last.x + a.shape.width <= b.last.x - b.shape.width THEN "RIGHT"
  ELSE IF a.last.x - a.shape.width >= b.last.x + b.shape.width THEN "LEFT"
  ELSE IF a.last.y + a.shape.height <= b.last.y - b.shape.height THEN "DOWN"
  ELSE IF a.last.y - a.shape.height >= b.last.y + b.shape.height THEN "UP"
  ELSE "undefined"
Direction(a, b) ==
  IF a.last.y + a.shape.height <= b.last.y - b.shape.height THEN "DOWN"
  ELSE IF a.last.y - a.shape.height >= b.last.y + b.shape.height THEN "UP"
  ELSE IF a.last.x + a.shape.width <= b.last.x - b.shape.width THEN "RIGHT"
  ELSE IF a.last.x - a.shape.width >= b.last.x + b.shape.width THEN "LEFT"
  ELSE "undefined"

\* part_000 212, 217, 222, 227: a.position snapped against b's edge.
SnapBothAxes(a, b, dir) ==
  CASE dir = "DOWN"  -> Vec(b.position.x, b.position.y - b.shape.height - a.shape.height)
    [] dir = "UP"    -> Vec(b.position.x, b.position.y + b.shape.height + a.shape.height)
    [] dir = "RIGHT" -> Vec(b.position.x - b.shape.width - a.shape.width, b.position.y)
    [] dir = "LEFT"  -> Vec(b.position.x + b.shape.width + a.shape.width, b.position.y)
    [] OTHER         -> a.position
Snap(a, b, dir) ==
  CASE dir = "DOWN"  -> Vec(a.position.x, b.position.y - b.shape.height - a.shape.height)
    [] dir = "UP"    -> Vec(a.position.x, b.position.y + b.shape.height + a.shape.height)
    [] dir = "RIGHT" -> Vec(b.position.x - b.shape.width - a.shape.width, a.position.y)
    [] dir = "LEFT"  -> Vec(b.position.x + b.shape.width + a.shape.width, a.position.y)
    [] OTHER         -> a.position

\* part_000 235: b.position.angle(a.position), the angle of a seen from b.
\* Only the axis directions have whole cosines and sines, and the circle
\* pairs of the model are axis-aligned.  Coinciding centres: atan2(0, 0) = 0.
Angle(a, b) ==
  LET dx == a.position.x - b.position.x
      dy == a.position.y - b.position.y
  IN IF dy = 0 THEN (IF dx >= 0 THEN "0" ELSE "PI")
     ELSE IF dy > 0 THEN "PI/2" ELSE "-PI/2"

Cos(angle) == CASE angle = "0" -> 1 [] angle = "PI" -> -1 [] OTHER -> 0
Sin(angle) == CASE angle = "PI/2" -> 1 [] angle = "-PI/2" -> -1 [] OTHER -> 0

hitResponseSnapFirst(a, b) ==
  LET rr == AndReads(a, "width", b, "width")
      cc == AndReads(a, "radius", b, "radius")
      none == [a |-> a, result |-> "undefined", called |-> FALSE, dir |-> "undefined"]
  IN IF rr = "TypeError" THEN [none EXCEPT !.result = "TypeError"]
     ELSE IF rr = "true" THEN
       LET dir == Direction(a, b)
           moved == [a EXCEPT !.position = Snap(a, b, dir)]
       IN IF BodyCollide(a, b, dir)
          THEN [a |-> moved, result |-> "true", called |-> TRUE, dir |-> dir]
          ELSE [none EXCEPT !.a = moved, !.called = TRUE, !.dir = dir]
     ELSE IF cc = "TypeError" THEN [none EXCEPT !.result = "TypeError"]
     ELSE IF cc = "true" THEN
       LET angle == Angle(a, b)
           dist == 2 * (a.shape.radius + b.shape.radius)
           moved == [a EXCEPT !.position = Vec(b.position.x + Cos(angle) * dist,
                                               b.position.y + Sin(angle) * dist)]
       IN IF BodyCollide(a, b, angle)
          THEN [a |-> moved, result |-> "true", called |-> TRUE, dir |-> angle]
          ELSE [none EXCEPT !.a = moved, !.called = TRUE, !.dir = angle]
     ELSE none
hitResponse(a, b) ==
  LET rr == AndReads(a, "width", b, "width")
      cc == AndReads(a, "radius", b, "radius")
      none == [a |-> a, result |-> "undefined", called |-> FALSE, dir |-> "undefined"]
  IN IF rr = "TypeError" THEN [none EXCEPT !.result = "TypeError"]
     ELSE IF rr = "true" THEN
       LET dir == Direction(a, b)
       IN IF BodyCollide(a, b, dir)
          THEN [a |-> [a EXCEPT !.position = Snap(a, b, dir)],
                result |-> "true", called |-> TRUE, dir |-> dir]
          ELSE [none EXCEPT !.called = TRUE, !.dir = dir]
     ELSE IF cc = "TypeError" THEN [none EXCEPT !.result = "TypeError"]
     ELSE IF cc = "true" THEN
       LET angle == Angle(a, b)
           dist == 2 * (a.shape.radius + b.shape.radius)
       IN IF BodyCollide(a, b, angle)
          THEN [a |-> [a EXCEPT !.position = Vec(b.position.x + Cos(angle) * dist,
                                                   b.position.y + Sin(angle) * dist)],
                result |-> "true", called |-> TRUE, dir |-> angle]
          ELSE [none EXCEPT !.called = TRUE, !.dir = angle]
     ELSE none

(***************************************************************************)
(* Physics: the world's collections.                                       *)
(***************************************************************************)
Range(list) == {list[i] : i \in 1..Len(list)}

\* arr.indexOf(obj), 1-based; 0 when absent.
IndexOf(list, x) ==
  IF x \in Range(list)
  THEN CHOOSE i \in 1..Len(list) : list[i] = x /\ \A j \in 1..(i - 1) : list[j] # x
  ELSE 0

\* part_000 6-10 and Array.prototype.splice(i, 1): the list without its
\* i-th element.
RemoveAt(list, i) == [k \in 1..(Len(list) - 1) |-> IF k < i THEN list[k] ELSE list[k + 1]]

\* part_000 12-17: erase(arr, obj) removes the first occurrence.
erase(list, x) == IF IndexOf(list, x) # 0 THEN RemoveAt(list, IndexOf(list, x)) ELSE list

\* typeof v === 'number' for a collisionGroup value v = <<g>>; null is << >>.
IsNumber(v) == v # Null

\* groups with groups[g] set to list (the property is created when absent).
SetGroup(groups, g, list) ==
  [k \in DOMAIN groups \cup {g} |-> IF k = g THEN list ELSE groups[k]]

\* delete groups[g]
DeleteGroup(groups, g) == [k \in DOMAIN groups \ {g} |-> groups[k]]

\* World.prototype.addBodyCollision on the group index of one world; cg is
\* body.collisionGroup.
addBodyCollision(groups, cg, b) ==
  IF ~IsNumber(cg) THEN groups
  ELSE LET g == cg[1]
           list == IF g \in DOMAIN groups THEN groups[g] ELSE << >>
       IN IF b \in Range(list) THEN SetGroup(groups, g, list)
          ELSE SetGroup(groups, g, Append(list, b))

\* World.prototype.removeBodyCollision on the group index of one world.
removeBodyCollision(groups, cg, b) ==
  IF ~IsNumber(cg) THEN groups
  ELSE IF cg[1] \notin DOMAIN groups THEN groups
  ELSE IF b \notin Range(groups[cg[1]]) THEN groups
  ELSE SetGroup(groups, cg[1], erase(groups[cg[1]], b))

(***************************************************************************)
(* Physics: World.prototype.update and World.prototype.collide.            *)
(*                                                                         *)
(* Both work on a record s of what one world's update can touch: body (the *)
(* fields of every body), list (this world's bodies), groups (this world's *)
(* collisionGroups), collides (the _collides scratch list of the body in   *)
(* World.collide), pass (the number of group tests World.collide has begun *)
(* in this update), g and key (the index g of World.collide and the group  *)
(* collideAgainst[g] names), trace and thrown.  A TypeError ends the       *)
(* update at once, leaving what was done so far.                           *)
(***************************************************************************)
\* Timer.delta (engine/timer), in ms: the time step World.update integrates.
TimerDelta == 500

\* v * delta for delta = Timer.delta / 1000, in doubled coordinates.
Displacement(v) == (2 * v * TimerDelta) \div 1000

\* Body.prototype.update for a body that keeps the constructor's mass = 0,
\* force = (0, 0) and damping = 0, with a velocity inside velocityLimit.
BodyUpdate(r) ==
  [r EXCEPT !.last = r.position,
            !.position = Vec(r.position.x + Displacement(r.velocity.x),
                             r.position.y + Displacement(r.velocity.y))]

Log(s, e) == [s EXCEPT !.trace = Append(@, e)]

\* part_000 136-143: the bodies, last to first: a flagged one is unregistered
\* from its group and spliced out, any other is integrated.
RECURSIVE RemoveOrIntegrate(_, _)
RemoveOrIntegrate(s, i) ==
  IF i < 1 THEN s
  ELSE LET b == s.list[i]
       IN IF s.body[b].remove
          THEN RemoveOrIntegrate(
                 [s EXCEPT !.groups = removeBodyCollision(@, s.body[b].collisionGroup, b),
                           !.list = RemoveAt(@, i)], i - 1)
          ELSE RemoveOrIntegrate(
                 Log([s EXCEPT !.body[b] = BodyUpdate(@)], [ev |-> "integrate", a |-> b]),
                 i - 1)

\* part_000 122: body.afterCollide(b).  Body.prototype.afterCollide does
\* nothing ("noop"); a body whose class overrides it to stop colliding once
\* it was hit ("removeCollision") calls this.removeCollision() there, which
\* acts on the groups of the body's world, here the world being updated.
afterCollide(s, a, b) ==
  LET t == Log(s, [ev |-> "afterCollide", a |-> a, b |-> b, pass |-> s.pass])
  IN IF s.body[a].afterCollide = "removeCollision" /\ s.body[a].world = s.world
     THEN [t EXCEPT !.groups = removeBodyCollision(@, s.body[a].collisionGroup, a)]
     ELSE t

\* part_000 110-118: hit tests of a against the members of group, last to
\* first; a hit is pushed onto a._collides.
RECURSIVE TestPassResponding(_, _, _, _)
TestPassResponding(s, a, group, i) ==
  IF i < 1 \/ s.thrown THEN s
  ELSE LET b == group[i]
       IN IF a = b THEN TestPassResponding(s, a, group, i - 1)
          ELSE LET r == hitTest(s.body[a], s.body[b])
                   t == Log(s, [ev |-> "hitTest", a |-> a, b |-> b, res |-> r,
                                pass |-> s.pass, g |-> s.g, key |-> s.key,
                                at |-> s.body[a].position])
                   h == hitResponse(s.body[a], s.body[b])
                   u == Log([t EXCEPT !.body[a] = h.a],
                            [ev |-> "hitResponse", a |-> a, b |-> b, res |-> h.result,
                             called |-> h.called, dir |-> h.dir, pass |-> s.pass,
                             before |-> s.body[a].position, after |-> h.a.position])
               IN IF r = "TypeError" THEN [t EXCEPT !.thrown = TRUE]
                  ELSE IF r = "true"
                       THEN TestPassResponding(
                              IF h.result = "true" THEN afterCollide(u, a, b) ELSE u,
                              a, group, i - 1)
                       ELSE TestPassResponding(t, a, group, i - 1)
RECURSIVE TestPass(_, _, _, _)
TestPass(s, a, group, i) ==
  IF i < 1 \/ s.thrown THEN s
  ELSE LET b == group[i]
       IN IF a = b THEN TestPass(s, a, group, i - 1)
          ELSE LET r == hitTest(s.body[a], s.body[b])
                   t == Log(s, [ev |-> "hitTest", a |-> a, b |-> b, res |-> r,
                                pass |-> s.pass, g |-> s.g, key |-> s.key,
                                at |-> s.body[a].position])
               IN IF r = "TypeError" THEN [t EXCEPT !.thrown = TRUE]
                  ELSE IF r = "true"
                       THEN TestPass([t EXCEPT !.collides = Append(@, b)], a, group, i - 1)
                       ELSE TestPass(t, a, group, i - 1)

\* part_000 120-124: responses for the collected hits, last to first.
RECURSIVE ResponsePassFirstToLast(_, _, _)
ResponsePassFirstToLast(s, a, i) ==
  IF i < 1 \/ s.thrown THEN s
  ELSE LET b == s.collides[Len(s.collides) + 1 - i]
           r == hitResponse(s.body[a], s.body[b])
           t == Log([s EXCEPT !.body[a] = r.a],
                    [ev |-> "hitResponse", a |-> a, b |-> b, res |-> r.result,
                     called |-> r.called, dir |-> r.dir, pass |-> s.pass,
                     before |-> s.body[a].position, after |-> r.a.position])
       IN IF r.result = "TypeError" THEN [t EXCEPT !.thrown = TRUE]
          ELSE IF r.result = "true"
               THEN ResponsePassFirstToLast(afterCollide(t, a, b), a, i - 1)
               ELSE ResponsePassFirstToLast(t, a, i - 1)
RECURSIVE ResponsePass(_, _, _)
ResponsePass(s, a, i) ==
  IF i < 1 \/ s.thrown THEN s
  ELSE LET b == s.collides[i]
           r == hitResponse(s.body[a], s.body[b])
           t == Log([s EXCEPT !.body[a] = r.a],
                    [ev |-> "hitResponse", a |-> a, b |-> b, res |-> r.result,
                     called |-> r.called, dir |-> r.dir, pass |-> s.pass,
                     before |-> s.body[a].position, after |-> r.a.position])
       IN IF r.result = "TypeError" THEN [t EXCEPT !.thrown = TRUE]
          ELSE IF r.result = "true"
               THEN ResponsePass(afterCollide(t, a, b), a, i - 1)
               ELSE ResponsePass(t, a, i - 1)

\* World.prototype.collide(body): the groups of collideAgainst in order.
RECURSIVE collide(_, _, _)
collide(s, a, g) ==
  IF g > Len(s.body[a].collideAgainst) \/ s.thrown THEN s
  ELSE LET k == s.body[a].collideAgainst[g]
           c == [s EXCEPT !.collides = << >>, !.pass = @ + 1, !.g = g, !.key = k]
       IN IF k \notin DOMAIN c.groups THEN collide(c, a, g + 1)
          ELSE LET t == TestPass(c, a, c.groups[k], Len(c.groups[k]))
               IN collide(ResponsePass(t, a, Len(t.collides)), a, g + 1)

\* part_000 152-156: the members of group k, last to first; the list is read
\* anew at every j, and an index past its end (the list shrank in a
\* callback) reads undefined and is skipped.
RECURSIVE CollideMembers(_, _, _)
CollideMembers(s, k, j) ==
  IF j < 1 \/ s.thrown THEN s
  ELSE IF j > Len(s.groups[k]) THEN CollideMembers(s, k, j - 1)
  ELSE LET a == s.groups[k][j]
       IN IF Len(s.body[a].collideAgainst) > 0
          THEN CollideMembers(collide(s, a, 1), k, j - 1)
          ELSE CollideMembers(s, k, j - 1)

\* The least element of a non-empty set of numbers.
Least(S) == CHOOSE x \in S : \A y \in S : x <= y

\* part_000 145-157: for (i in this.collisionGroups), the keys in ascending
\* order: an empty group is deleted, the members of any other collide.
RECURSIVE GroupPass(_, _)
GroupPass(s, keys) ==
  IF keys = {} \/ s.thrown THEN s
  ELSE LET k == Least(keys)
       IN IF Len(s.groups[k]) = 0
          THEN GroupPass([s EXCEPT !.groups = DeleteGroup(@, k)], keys \ {k})
          ELSE GroupPass(CollideMembers(s, k, Len(s.groups[k])), keys \ {k})

\* World.prototype.update on world w.
WorldUpdateCollidingFirst(w) ==
  LET s0 == [world |-> w, body |-> body, list |-> bodies[w],
             groups |-> collisionGroups[w], collides |-> << >>, pass |-> 0,
             g |-> 0, key |-> 0,
             trace |-> << >>, thrown |-> FALSE]
      s1 == GroupPass(s0, DOMAIN s0.groups)
  IN IF s1.thrown THEN s1 ELSE RemoveOrIntegrate(s1, Len(s1.list))
WorldUpdate(w) ==
  LET s0 == [world |-> w, body |-> body, list |-> bodies[w],
             groups |-> collisionGroups[w], collides |-> << >>, pass |-> 0,
             g |-> 0, key |-> 0,
             trace |-> << >>, thrown |-> FALSE]
      s1 == RemoveOrIntegrate(s0, Len(s0.list))
  IN GroupPass(s1, DOMAIN s1.groups)

(***************************************************************************)
(* Physics: the operations on bodies and worlds, as actions.               *)
(***************************************************************************)
Bodies == {"b1", "b2"}
Worlds == {"w1"}
Groups == {0, 1}

\* World.bodies of the model holds at most MaxBodies entries.
MaxBodies == 2

\* op observes the latest operation: a removal (removeBody on the world, or
\* Body.remove) with the body it was called on and whether that body had no
\* world at the call, a World.update with its world, or any other operation.
Removal(b) == op' = [name |-> "remove", arg |-> b, unowned |-> body[b].world = NoWorld]
Updated(w) == op' = [name |-> "update", arg |-> w, unowned |-> FALSE]
Other == op' = [name |-> "other", arg |-> "none", unowned |-> FALSE]
Quiet ==
  /\ trace' = << >>
  /\ thrown' = FALSE
  /\ UNCHANGED <<desiredFPS, spiraling, last, realDelta, deltaTime, lastCount, count,
                 calls, hist>>

\* World.prototype.addBody: the new body, bodies and collisionGroups.
addBody(w, b) ==
  [body |-> [body EXCEPT ![b].world = w, ![b].remove = FALSE],
   bodies |-> [bodies EXCEPT ![w] = Append(@, b)],
   groups |-> [collisionGroups EXCEPT
                 ![w] = addBodyCollision(@, body[b].collisionGroup, b)]]

\* World.prototype.removeBody: the new body, bodies and collisionGroups.
removeBodyEager(w, b) ==
  IF body[b].world = NoWorld
  THEN [body |-> body, bodies |-> bodies, groups |-> collisionGroups]
  ELSE [body |-> [body EXCEPT ![b].world = NoWorld, ![b].remove = TRUE],
        bodies |-> [bodies EXCEPT ![w] = erase(@, b)],
        groups |-> [collisionGroups EXCEPT
                      ![w] = removeBodyCollision(@, body[b].collisionGroup, b)]]
removeBodyUnguarded(w, b) ==
  [body |-> [body EXCEPT ![b].world = NoWorld, ![b].remove = TRUE],
   bodies |-> bodies, groups |-> collisionGroups]
removeBody(w, b) ==
  IF body[b].world = NoWorld
  THEN [body |-> body, bodies |-> bodies, groups |-> collisionGroups]
  ELSE [body |-> [body EXCEPT ![b].world = NoWorld, ![b].remove = TRUE],
        bodies |-> bodies, groups |-> collisionGroups]

Becomes(r) ==
  /\ body' = r.body
  /\ bodies' = r.bodies
  /\ collisionGroups' = r.groups

\* world.addBody(body), called on the world.
AddBody(w, b) ==
  /\ Len(bodies[w]) < MaxBodies
  /\ Becomes(addBody(w, b))
  /\ Other
  /\ Quiet

\* Body.prototype.addTo(world).
AddTo(b, w) ==
  /\ Len(bodies[w]) < MaxBodies
  /\ IF body[b].world # NoWorld
     THEN UNCHANGED <<body, bodies, collisionGroups>>
     ELSE Becomes(addBody(w, b))
  /\ Other
  /\ Quiet

\* world.removeBody(body), called on the world.
RemoveBody(w, b) ==
  /\ Becomes(removeBody(w, b))
  /\ Removal(b)
  /\ Quiet

\* Body.prototype.remove.
Remove(b) ==
  /\ IF body[b].world # NoWorld
     THEN Becomes(removeBody(body[b].world, b))
     ELSE UNCHANGED <<body, bodies, collisionGroups>>
  /\ Removal(b)
  /\ Quiet

\* Body.prototype.setCollisionGroup(group).
SetCollisionGroup(b, cg) ==
  LET w == body[b].world
      g1 == IF w # NoWorld /\ IsNumber(body[b].collisionGroup)
            THEN [collisionGroups EXCEPT
                    ![w] = removeBodyCollision(@, body[b].collisionGroup, b)]
            ELSE collisionGroups
      g2 == IF w # NoWorld
            THEN [g1 EXCEPT ![w] = addBodyCollision(@, cg, b)]
            ELSE g1
  IN /\ body' = [body EXCEPT ![b].collisionGroup = cg]
     /\ collisionGroups' = g2
     /\ UNCHANGED bodies
     /\ Other
     /\ Quiet

\* Body.prototype.removeCollision.
RemoveCollision(b) ==
  LET w == body[b].world
  IN /\ collisionGroups' =
          IF w # NoWorld
          THEN [collisionGroups EXCEPT
                  ![w] = removeBodyCollision(@, body[b].collisionGroup, b)]
          ELSE collisionGroups
     /\ UNCHANGED <<body, bodies>>
     /\ Other
     /\ Quiet

\* Scene _freezePhysics: this.world.bodies.length = 0.
Freeze(w) ==
  /\ bodies' = [bodies EXCEPT ![w] = << >>]
  /\ UNCHANGED <<body, collisionGroups>>
  /\ Other
  /\ Quiet

\* Coordinates of the model stay within -MaxCoord..MaxCoord (doubled units).
MaxCoord == 8
InBounds(r) ==
  /\ r.position.x \in -MaxCoord..MaxCoord
  /\ r.position.y \in -MaxCoord..MaxCoord

\* Scene _updatePhysics: this.world.update().
Update(w) ==
  LET s == WorldUpdate(w)
  IN /\ \A b \in DOMAIN body : InBounds(s.body[b])
     /\ body' = s.body
     /\ bodies' = [bodies EXCEPT ![w] = s.list]
     /\ collisionGroups' = [collisionGroups EXCEPT ![w] = s.groups]
     /\ trace' = s.trace
     /\ thrown' = s.thrown
     /\ Updated(w)
     /\ UNCHANGED <<desiredFPS, spiraling, last, realDelta, deltaTime, lastCount, count,
                    calls, hist>>

\* new Body(properties): the fields of a body that no operation has touched.
NewBody(shape, position, velocity, collideAgainst) ==
  [world |-> NoWorld, remove |-> FALSE, collisionGroup |-> Null,
   collideAgainst |-> collideAgainst, shape |-> shape,
   position |-> position, last |-> Vec(0, 0), velocity |-> velocity,
   accepts |-> TRUE, afterCollide |-> "noop"]

\* The bodies the world model starts from: b1, a 2 x 2 rectangle at the
\* origin that collides against both groups, and b2, overlapping it from
\* below, with no shape or a 2 x 2 rectangle, colliding against nothing.
InitBody(b, shape) ==
  IF b = "b1" THEN NewBody(Rectangle(2, 2), Vec(0, 0), Vec(0, 0), <<0, 1>>)
  ELSE NewBody(shape, Vec(0, 2), Vec(0, 0), << >>)

WorldShapes == {NullShape, Rectangle(2, 2)}

\* A scene with its world (_initPhysics) and two bodies not yet added; the
\* scheduler is not running in the world's specifications.
WorldInit ==
  /\ \E shape \in WorldShapes : body = [b \in Bodies |-> InitBody(b, shape)]
  /\ bodies = [w \in Worlds |-> << >>]
  /\ collisionGroups = [w \in Worlds |-> << >>]
  /\ trace = << >>
  /\ thrown = FALSE
  /\ op = [name |-> "other", arg |-> "none", unowned |-> FALSE]
  /\ desiredFPS = 60
  /\ spiraling = 0
  /\ last = -1
  /\ realDelta = 0
  /\ deltaTime = 0
  /\ lastCount = 0
  /\ count = 0
  /\ calls = << >>
  /\ hist = << >>

WorldNext ==
  \/ \E w \in Worlds, b \in Bodies : AddBody(w, b)
  \/ \E w \in Worlds, b \in Bodies : AddTo(b, w)
  \/ \E w \in Worlds, b \in Bodies : RemoveBody(w, b)
  \/ \E b \in Bodies : Remove(b)
  \/ \E b \in Bodies, g \in Groups : SetCollisionGroup(b, Some(g))
  \/ \E b \in Bodies : SetCollisionGroup(b, Null)
  \/ \E b \in Bodies : RemoveCollision(b)
  \/ \E w \in Worlds : Freeze(w)
  \/ \E w \in Worlds : Update(w)

\* One world, two bodies, two groups.
SpecWorld == WorldInit /\ [][WorldNext]_vars

\* Two worlds and one body that may be handed from one to the other.
TwoWorlds == {"w1", "w2"}
OneBody == {"b1"}

OwnersInit ==
  /\ body = [b \in OneBody |-> InitBody(b, NullShape)]
  /\ bodies = [w \in TwoWorlds |-> << >>]
  /\ collisionGroups = [w \in TwoWorlds |-> << >>]
  /\ trace = << >>
  /\ thrown = FALSE
  /\ op = [name |-> "other", arg |-> "none", unowned |-> FALSE]
  /\ desiredFPS = 60
  /\ spiraling = 0
  /\ last = -1
  /\ realDelta = 0
  /\ deltaTime = 0
  /\ lastCount = 0
  /\ count = 0
  /\ calls = << >>
  /\ hist = << >>

OwnersNext ==
  \/ \E w \in TwoWorlds, b \in OneBody : AddBody(w, b)
  \/ \E w \in TwoWorlds, b \in OneBody : AddTo(b, w)
  \/ \E w \in TwoWorlds, b \in OneBody : RemoveBody(w, b)
  \/ \E b \in OneBody : Remove(b)
  \/ \E b \in OneBody, g \in Groups : SetCollisionGroup(b, Some(g))
  \/ \E b \in OneBody : SetCollisionGroup(b, Null)
  \/ \E b \in OneBody : RemoveCollision(b)
  \/ \E w \in TwoWorlds : Freeze(w)
  \/ \E w \in TwoWorlds : Update(w)

SpecOwners == OwnersInit /\ [][OwnersNext]_vars

\* Two worlds and two bodies that are only added (Body.addTo), removed
\* (Body.remove) and updated.
AddRemoveInit ==
  /\ body = [b \in Bodies |-> InitBody(b, Rectangle(2, 2))]
  /\ bodies = [w \in TwoWorlds |-> << >>]
  /\ collisionGroups = [w \in TwoWorlds |-> << >>]
  /\ trace = << >>
  /\ thrown = FALSE
  /\ op = [name |-> "other", arg |-> "none", unowned |-> FALSE]
  /\ desiredFPS = 60
  /\ spiraling = 0
  /\ last = -1
  /\ realDelta = 0
  /\ deltaTime = 0
  /\ lastCount = 0
  /\ count = 0
  /\ calls = << >>
  /\ hist = << >>

AddRemoveNext ==
  \/ \E w \in TwoWorlds, b \in Bodies : AddTo(b, w)
  \/ \E b \in Bodies : Remove(b)
  \/ \E w \in TwoWorlds : Update(w)

SpecAddRemove == AddRemoveInit /\ [][AddRemoveNext]_vars

\* The world of a scene and two rectangles: bodies are added (Body.addTo),
\* removed (Body.remove) and given a group (Body.setCollisionGroup), the
\* world is updated, and the scene may freeze.
SceneWorldInit ==
  /\ body = [b \in Bodies |-> InitBody(b, Rectangle(2, 2))]
  /\ bodies = [w \in Worlds |-> << >>]
  /\ collisionGroups = [w \in Worlds |-> << >>]
  /\ trace = << >>
  /\ thrown = FALSE
  /\ op = [name |-> "other", arg |-> "none", unowned |-> FALSE]
  /\ desiredFPS = 60
  /\ spiraling = 0
  /\ last = -1
  /\ realDelta = 0
  /\ deltaTime = 0
  /\ lastCount = 0
  /\ count = 0
  /\ calls = << >>
  /\ hist = << >>

SceneWorldNext ==
  \/ \E w \in Worlds, b \in Bodies : AddTo(b, w)
  \/ \E b \in Bodies : Remove(b)
  \/ \E b \in Bodies, g \in Groups : SetCollisionGroup(b, Some(g))
  \/ \E w \in Worlds : Freeze(w)
  \/ \E w \in Worlds : Update(w)

SpecSceneWorld == SceneWorldInit /\ [][SceneWorldNext]_vars

(***************************************************************************)
(* A world in which bodies meet: b1, a 2 x 2 rectangle of group 0, falls   *)
(* onto b2 and b3, two 2 x 2 rectangles of group 1 that stand side by side *)
(* at different heights.  The class of b1 may override collide (a veto)    *)
(* and afterCollide.                                                       *)
(***************************************************************************)
Falling == {"b1", "b2", "b3"}

\* b1.velocity.y and b1.collideAgainst
Speeds == {1, 2}
Against == {<<1>>, <<0, 1>>}

CollideBody(b, vy, against, accepts, after) ==
  LET r == CASE b = "b1" -> NewBody(Rectangle(2, 2), Vec(0, 0), Vec(0, vy), against)
             [] b = "b2" -> NewBody(Rectangle(2, 2), Vec(-2, 4), Vec(0, 0), << >>)
             [] OTHER    -> NewBody(Rectangle(2, 2), Vec(2, 5), Vec(0, 0), << >>)
  IN [r EXCEPT !.world = "w1",
               !.collisionGroup = IF b = "b1" THEN Some(0) ELSE Some(1),
               !.accepts = IF b = "b1" THEN accepts ELSE TRUE,
               !.afterCollide = IF b = "b1" THEN after ELSE "noop"]

\* The three bodies were constructed, given their groups and added to the
\* world of the scene, b1 first.
CollideInit ==
  /\ \E vy \in Speeds, against \in Against, accepts \in BOOLEAN,
        after \in {"noop", "removeCollision"} :
       body = [b \in Falling |-> CollideBody(b, vy, against, accepts, after)]
  /\ bodies = [w \in Worlds |-> <<"b1", "b2", "b3">>]
  /\ collisionGroups = [w \in Worlds |-> (0 :> <<"b1">>) @@ (1 :> <<"b2", "b3">>)]
  /\ trace = << >>
  /\ thrown = FALSE
  /\ op = [name |-> "other", arg |-> "none", unowned |-> FALSE]
  /\ desiredFPS = 60
  /\ spiraling = 0
  /\ last = -1
  /\ realDelta = 0
  /\ deltaTime = 0
  /\ lastCount = 0
  /\ count = 0
  /\ calls = << >>
  /\ hist = << >>

CollideNext ==
  \/ \E b \in Falling : Remove(b)
  \/ \E g \in Groups : SetCollisionGroup("b3", Some(g))
  \/ \E w \in Worlds : Update(w)

SpecCollide == CollideInit /\ [][CollideNext]_vars

(***************************************************************************)
(* Properties of the world, checked under SpecWorld (C6: SpecOwners).      *)
(***************************************************************************)
\* The number of entries of list that are x.
Occurrences(list, x) == Cardinality({i \in 1..Len(list) : list[i] = x})

\* b is listed in some collision group of world w.
InSomeGroup(w, b) ==
  \E g \in DOMAIN collisionGroups[w] : b \in Range(collisionGroups[w][g])

\* b is flagged for removal and has not been added again.
Flagged(b) == body[b].remove /\ body[b].world = NoWorld

\* C4: removeBody is deferred.  The call leaves the world's body collection and
\* every group list as they are and only flags the body; the next
\* World.update splices every flagged body out of the collection and
\* unregisters it from the group its collisionGroup names.
C4_Step ==
  /\ op'.name = "remove" =>
       /\ bodies' = bodies
       /\ collisionGroups' = collisionGroups
       /\ body[op'.arg].world # NoWorld =>
            (body'[op'.arg].remove /\ body'[op'.arg].world = NoWorld)
  /\ \A w \in DOMAIN bodies : (op'.name = "update" /\ op'.arg = w) =>
       \A b \in DOMAIN body :
         (body[b].remove /\ b \in Range(bodies[w])) =>
           /\ b \notin Range(bodies'[w])
           /\ \A g \in DOMAIN collisionGroups'[w] :
                body[b].collisionGroup = Some(g) => b \notin Range(collisionGroups'[w][g])

C4_DeferredRemoval == [][C4_Step]_vars

\* removeBody has just flagged a body that is still in the collection and
\* still in the list of its group.
C4_Witness ==
  /\ op.name = "remove"
  /\ Flagged(op.arg)
  /\ \E w \in DOMAIN bodies :
       /\ op.arg \in Range(bodies[w])
       /\ \E g \in DOMAIN collisionGroups[w] :
            /\ body[op.arg].collisionGroup = Some(g)
            /\ op.arg \in Range(collisionGroups[w][g])

\* C5: once removeBody was called on a body, whatever is called before the
\* next World.update (setCollisionGroup, freeze, ...), that update leaves the
\* body, while it stays removed, in no collision group, and passes it to no
\* hitTest, hitResponse or afterCollide.
C5_Step ==
  \A w \in DOMAIN bodies : (op'.name = "update" /\ op'.arg = w) =>
    \A b \in DOMAIN body :
      (Flagged(b) /\ Flagged(b)') =>
        /\ ~InSomeGroup(w, b)'
        /\ \A i \in 1..Len(trace') : trace'[i].ev = "integrate" \/
             (trace'[i].a # b /\ trace'[i].b # b)

C5_RemovedLeavesGroup == [][C5_Step]_vars

\* C6: adding a body that already belongs to a world changes nothing, through
\* Body.addTo(world) and through World.addBody(body).
C6_Step ==
  \A w \in DOMAIN bodies, b \in DOMAIN body :
    ((AddBody(w, b) \/ AddTo(b, w)) /\ body[b].world # NoWorld) =>
      UNCHANGED <<body, bodies, collisionGroups>>

C6_AddOwnedIsNoOp == [][C6_Step]_vars

\* C7: a body owned by a world, with a numeric collisionGroup g, is listed in
\* group g exactly once and in no other group; a body whose collisionGroup is
\* null is listed in no group.
C7_GroupMembership ==
  \A w \in DOMAIN bodies, b \in DOMAIN body :
    /\ (body[b].world = w /\ IsNumber(body[b].collisionGroup)) =>
         \A g \in Groups :
           Occurrences(IF g \in DOMAIN collisionGroups[w]
                       THEN collisionGroups[w][g] ELSE << >>, b)
             = IF body[b].collisionGroup = Some(g) THEN 1 ELSE 0
    /\ body[b].collisionGroup = Null => ~InSomeGroup(w, b)

\* C8: a removal of a body that no world owns (never added, or removed
\* before) changes nothing of the body or the world, and the World.update that
\* follows splices each flagged entry out, once.
C8_Step ==
  /\ (op'.name = "remove" /\ body[op'.arg].world = NoWorld) =>
       UNCHANGED <<body, bodies, collisionGroups>>
  /\ \A w \in DOMAIN bodies : (op'.name = "update" /\ op'.arg = w) =>
       /\ \A b \in DOMAIN body :
            Occurrences(bodies'[w], b) =
              IF body[b].remove THEN 0 ELSE Occurrences(bodies[w], b)
       /\ \A b \in DOMAIN body :
            /\ body'[b].remove = body[b].remove
            /\ body'[b].world = body[b].world

C8_RemovalIsIdempotent == [][C8_Step]_vars

\* A second removal has just been called on a body that is flagged and still
\* waits in the collection for the update.
C8_Witness ==
  /\ op.name = "remove"
  /\ op.unowned
  /\ Flagged(op.arg)
  /\ \E w \in DOMAIN bodies : op.arg \in Range(bodies[w])

\* b has no shape, or a shape that is neither a rectangle nor a circle.
Shapeless(b) == body[b].shape \in {NullShape, UnknownShape}

\* C9: a hit test in which a body has no shape (or an unknown one) returns
\* false without raising an error, and the World.update it is part of
\* completes normally.
C9_MissingShapeIsNoHit ==
  /\ ~thrown
  /\ \A i \in 1..Len(trace) :
       (trace[i].ev = "hitTest" /\ (Shapeless(trace[i].a) \/ Shapeless(trace[i].b)))
         => trace[i].res = "false"

(***************************************************************************)
(* Properties of World.collide and World.update, checked under SpecCollide *)
(* on the trace of the latest World.update.                                *)
(***************************************************************************)
\* The i-th event of the trace exists and is of kind ev.
IsEvent(i, ev) == i \in 1..Len(trace) /\ trace[i].ev = ev

\* Events i and j are about the same pair of bodies.
SamePair(i, j) == trace[i].a = trace[j].a /\ trace[i].b = trace[j].b

\* Event i is a hitResponse whose a.collide call returned false.
Vetoed(i) ==
  /\ IsEvent(i, "hitResponse")
  /\ trace[i].called
  /\ ~body[trace[i].a].accepts

\* Event i is the afterCollide call that answers the hitResponse just before.
Answers(i) == IsEvent(i, "afterCollide") /\ SamePair(i - 1, i)

\* C11: when a.collide(b, direction) returns false, hitResponse leaves
\* a.position as it was and does not report success, and afterCollide is not
\* invoked for the pair; a.afterCollide(b) is invoked exactly when the
\* hitResponse for the pair reported success, right after it.
C11_VetoAndAfterCollide ==
  /\ \A i \in 1..Len(trace) :
       Vetoed(i) => /\ trace[i].res # "true"
                    /\ trace[i].after = trace[i].before
                    /\ ~Answers(i + 1)
  /\ \A i \in 1..Len(trace) :
       IsEvent(i, "hitResponse") => (trace[i].res = "true" <=> Answers(i + 1))
  /\ \A i \in 1..Len(trace) :
       IsEvent(i, "afterCollide") =>
         (IsEvent(i - 1, "hitResponse") /\ SamePair(i - 1, i) /\ trace[i - 1].res = "true")

\* An update in which a vetoing body was hit, at a place where accepting
\* would have moved it.
C11_Witness ==
  \E i \in 1..Len(trace) :
    /\ Vetoed(i)
    /\ trace[i].dir = "DOWN"
    /\ Snap([body[trace[i].a] EXCEPT !.position = trace[i].before],
            body[trace[i].b], "DOWN") # trace[i].before

\* The events of kind ev of group test p, and the group tests of the update.
PassOf(p, ev) == {i \in 1..Len(trace) : trace[i].ev = ev /\ trace[i].pass = p}
Passes == {trace[i].pass : i \in {j \in 1..Len(trace) : trace[j].ev = "hitTest"}}

\* a, standing at position at, overlaps b (the bodies a is tested against do
\* not move during an update of SpecCollide).
OverlappedAt(a, at, b) == hitTest([body[a] EXCEPT !.position = at], body[b]) = "true"

\* C12: World.collide(a) takes the groups of a.collideAgainst in the declared
\* order; in each group test every hit test comes before every response, a is
\* where it was at the first hit test during all of them, and the bodies that
\* get a hitResponse are exactly those that overlapped a there, before the
\* first response moved a.
C12_TestsBeforeResponses ==
  /\ \A i \in 1..Len(trace) : IsEvent(i, "hitTest") =>
       /\ trace[i].key = body[trace[i].a].collideAgainst[trace[i].g]
       /\ \A j \in 1..(i - 1) :
            (IsEvent(j, "hitTest") /\ trace[j].a = trace[i].a) => trace[j].g <= trace[i].g
  /\ \A p \in Passes :
       LET tests == PassOf(p, "hitTest")
           responses == PassOf(p, "hitResponse")
       IN /\ \A i \in tests, j \in responses : i < j
          /\ \A i \in tests, j \in tests : trace[i].at = trace[j].at
          /\ \A i \in tests, j \in responses :
               (\A k \in responses : j <= k) => trace[j].before = trace[i].at
          /\ {trace[j].b : j \in responses}
               = {trace[i].b : i \in {k \in tests :
                                       OverlappedAt(trace[k].a, trace[k].at, trace[k].b)}}

\* A group test with two responses, the first of which moved a away from the
\* body of the second.
C12_Witness ==
  \E p \in Passes : \E i \in PassOf(p, "hitResponse"), j \in PassOf(p, "hitResponse") :
    /\ i < j
    /\ trace[i].after # trace[i].before
    /\ ~OverlappedAt(trace[j].a, trace[j].before, trace[j].b)

\* The n-th least element of a set of numbers, and the bodies b of the
\* events S in the order of the trace.
Nth(S, n) == CHOOSE i \in S : Cardinality({j \in S : j < i}) = n - 1
InOrder(S) == [n \in 1..Cardinality(S) |-> trace[Nth(S, n)].b]

\* The hits of group test p in the order they were collected, and the bodies
\* answered by a hitResponse in the order of the calls.
HitsOf(p) == InOrder({i \in PassOf(p, "hitTest") : trace[i].res = "true"})
RespondedOf(p) == InOrder(PassOf(p, "hitResponse"))

Reverse(q) == [n \in 1..Len(q) |-> q[Len(q) + 1 - n]]
IsPrefix(q, r) == Len(q) <= Len(r) /\ \A n \in 1..Len(q) : q[n] = r[n]

\* C13, as the code has it: within one group test of World.collide(a) the
\* responses run in the reverse of the order in which the hits were
\* collected, the hit collected last being answered first; every collected
\* hit is answered unless the update was cut short by an error.
C13_ReverseHitOrder ==
  \A p \in Passes :
    /\ IsPrefix(RespondedOf(p), Reverse(HitsOf(p)))
    /\ ~thrown => RespondedOf(p) = Reverse(HitsOf(p))

\* C13, as stated: within one group test of World.collide(a) the responses
\* run in hit-order, the order in which the hit-test pass collected the hits.
C13_HitOrder == \A p \in Passes : RespondedOf(p) = HitsOf(p)

\* A group test that collected two hits.
C13_Witness ==
  \E p \in Passes :
    /\ Len(HitsOf(p)) = 2
    /\ HitsOf(p)[1] # HitsOf(p)[2]
    /\ Len(RespondedOf(p)) = 2

\* The events of the latest update that integrate body b.
Integrations(tr, b) == {i \in 1..Len(tr) : tr[i].ev = "integrate" /\ tr[i].a = b}

\* C17: within one World.update the integration step of every surviving
\* body is done before the first hitTest or hitResponse; a body flagged for
\* removal is not integrated and is no longer in the collection afterwards.
C17_Step ==
  \A w \in DOMAIN bodies : (op'.name = "update" /\ op'.arg = w) =>
    /\ \A i \in 1..Len(trace'), j \in 1..Len(trace') :
         (trace'[i].ev = "integrate" /\ trace'[j].ev \in {"hitTest", "hitResponse"})
           => i < j
    /\ \A b \in Range(bodies[w]) :
         IF body[b].remove
         THEN /\ Integrations(trace', b) = {}
              /\ b \notin Range(bodies'[w])
              /\ body'[b].last = body[b].last
         ELSE /\ Cardinality(Integrations(trace', b)) = Occurrences(bodies[w], b)
              /\ b \in Range(bodies'[w])
              /\ body'[b].last = body[b].position

C17_IntegrateThenCollide == [][C17_Step]_vars

\* An update that integrated two bodies and then tested and answered a hit,
\* the third body being flagged and out of the collection.
C17_Witness ==
  /\ op.name = "update"
  /\ \E b \in DOMAIN body :
       /\ Flagged(b)
       /\ b \notin Range(bodies[op.arg])
       /\ Integrations(trace, b) = {}
  /\ Cardinality({i \in 1..Len(trace) : trace[i].ev = "integrate"}) = 2
  /\ \E i \in 1..Len(trace) : trace[i].ev = "hitResponse"

\* C18: after World.update has returned, the group index of the world holds
\* no group with an empty list, also when the group became empty by the
\* deferred removals of that update or by a removeCollision or
\* setCollisionGroup call made from a collide or afterCollide callback during
\* the update.
C18_NoEmptyGroupAfterUpdate ==
  (op.name = "update" /\ ~thrown) =>
    \A g \in DOMAIN collisionGroups[op.arg] : Len(collisionGroups[op.arg][g]) > 0

\* C20: after any sequence of Body.addTo, Body.remove and World.update, also
\* when a body is removed and added again before the next update, a body is
\* at most once in a world's body collection and in the collection of at
\* most one world, and a World.update integrates it at most once.  Checked
\* under SpecAddRemove.
C20_AtMostOnce ==
  /\ \A w \in DOMAIN bodies, b \in DOMAIN body : Occurrences(bodies[w], b) <= 1
  /\ \A b \in DOMAIN body :
       Cardinality({w \in DOMAIN bodies : b \in Range(bodies[w])}) <= 1
  /\ \A b \in DOMAIN body : Cardinality(Integrations(trace, b)) <= 1

\* C21: in every state reached by addTo, remove, setCollisionGroup,
\* World.update and the scene's freeze, every body listed in a collision
\* group of a world is in that world's body collection, and an update
\* hit-tests no body the world does not hold.  Checked under SpecSceneWorld.
C21_GroupMembersAreOwned ==
  /\ \A w \in DOMAIN bodies : \A g \in DOMAIN collisionGroups[w] :
       \A b \in Range(collisionGroups[w][g]) : b \in Range(bodies[w])
  /\ op.name = "update" =>
       \A i \in 1..Len(trace) : trace[i].ev = "hitTest" =>
         (trace[i].a \in Range(bodies[op.arg]) /\ trace[i].b \in Range(bodies[op.arg]))

(***************************************************************************)
(* The solver on its own: hitTest and hitResponse applied once to a pair   *)
(* of bodies a and b drawn from bounded sets.                              *)
(***************************************************************************)
\* Doubled coordinates of a (position and last) range over -MaxOffset..MaxOffset.
MaxOffset == 2
Grid == {Vec(x, y) : x \in -MaxOffset..MaxOffset, y \in -MaxOffset..MaxOffset}

ShapesOfA == {Rectangle(1, 1), Rectangle(2, 1), Circle(1), NullShape}
ShapesOfB == {Rectangle(1, 1), Circle(1), UnknownShape, NullShape}
PositionsOfB == {Vec(0, 0), Vec(1, 0)}
\* b.position - b.last: b stood still, or came up by one.
MovesOfB == {Vec(0, 0), Vec(0, -1)}

SolverBody(shape, position, lastPosition, accepts) ==
  [NewBody(shape, position, Vec(0, 0), << >>) EXCEPT !.last = lastPosition,
                                                     !.accepts = accepts]

\* Circle pairs are axis-aligned (see Angle).
Aligned(a, b) ==
  (a.shape.kind = "Circle" /\ b.shape.kind = "Circle") =>
    (a.position.x = b.position.x \/ a.position.y = b.position.y)

SolverInit ==
  /\ \E sa \in ShapesOfA, sb \in ShapesOfB, pa \in Grid, la \in Grid,
        pb \in PositionsOfB, mb \in MovesOfB, acc \in BOOLEAN :
       LET a == SolverBody(sa, pa, la, acc)
           b == SolverBody(sb, pb, Vec(pb.x - mb.x, pb.y - mb.y), TRUE)
       IN /\ Aligned(a, b)
          /\ body = [n \in {"a", "b"} |-> IF n = "a" THEN a ELSE b]
  /\ bodies = << >>
  /\ collisionGroups = << >>
  /\ trace = << >>
  /\ thrown = FALSE
  /\ op = [name |-> "other", arg |-> "none", unowned |-> FALSE]
  /\ desiredFPS = 60
  /\ spiraling = 0
  /\ last = -1
  /\ realDelta = 0
  /\ deltaTime = 0
  /\ lastCount = 0
  /\ count = 0
  /\ calls = << >>
  /\ hist = << >>

\* solver.hitTest(a, b); trace keeps the call and its result.
HitTest ==
  /\ op.name = "other"
  /\ LET r == hitTest(body["a"], body["b"])
     IN /\ trace' = << [ev |-> "hitTest", a |-> "a", b |-> "b", res |-> r] >>
        /\ thrown' = (r = "TypeError")
  /\ op' = [name |-> "hitTest", arg |-> "none", unowned |-> FALSE]
  /\ UNCHANGED <<body, bodies, collisionGroups>>
  /\ UNCHANGED <<desiredFPS, spiraling, last, realDelta, deltaTime, lastCount, count,
                 calls, hist>>

\* solver.hitResponse(a, b); trace keeps the call, its result, the a.collide
\* call it made and a as it was before.
HitResponse ==
  /\ op.name = "other"
  /\ LET r == hitResponse(body["a"], body["b"])
     IN /\ body' = [body EXCEPT !["a"] = r.a]
        /\ trace' = << [ev |-> "hitResponse", a |-> "a", b |-> "b", res |-> r.result,
                        called |-> r.called, dir |-> r.dir, before |-> body["a"]] >>
        /\ thrown' = (r.result = "TypeError")
  /\ op' = [name |-> "hitResponse", arg |-> "none", unowned |-> FALSE]
  /\ UNCHANGED <<bodies, collisionGroups>>
  /\ UNCHANGED <<desiredFPS, spiraling, last, realDelta, deltaTime, lastCount, count,
                 calls, hist>>

SolverNext == HitTest \/ HitResponse

SpecSolver == SolverInit /\ [][SolverNext]_vars

(***************************************************************************)
(* Properties of hitResponse, checked under SpecSolver.  After the action  *)
(* HitResponse, trace[1] holds the call: its result, the a.collide call it *)
(* made and a as it was before.                                            *)
(***************************************************************************)
\* hitResponse(a, b) was called on two rectangles.
RespondedOnRectangles ==
  /\ op.name = "hitResponse"
  /\ body["a"].shape.kind = "Rectangle"
  /\ body["b"].shape.kind = "Rectangle"

\* Where a was, at the last positions, relative to b: the four separation
\* conditions of hitResponse (half extents in doubled coordinates).
WasAbove ==
  trace[1].before.last.y + body["a"].shape.height
    <= body["b"].last.y - body["b"].shape.height
WasBelow ==
  trace[1].before.last.y - body["a"].shape.height
    >= body["b"].last.y + body["b"].shape.height
WasLeftOf ==
  trace[1].before.last.x + body["a"].shape.width
    <= body["b"].last.x - body["b"].shape.width
WasRightOf ==
  trace[1].before.last.x - body["a"].shape.width
    >= body["b"].last.x + body["b"].shape.width

\* C15: for a rectangle pair hitResponse(a, b) tries the separation
\* conditions on the last positions in the order DOWN, UP, RIGHT, LEFT, and
\* the first that holds wins even when a later one holds too; a.collide is
\* invoked once, with that direction, or with no direction when none holds.
C15_DirectionOrder ==
  RespondedOnRectangles =>
    /\ trace[1].called
    /\ trace[1].dir \in {"DOWN", "UP", "RIGHT", "LEFT", "undefined"}
    /\ trace[1].dir = "DOWN" <=> WasAbove
    /\ trace[1].dir = "UP" <=> (~WasAbove /\ WasBelow)
    /\ trace[1].dir = "RIGHT" <=> (~WasAbove /\ ~WasBelow /\ WasLeftOf)
    /\ trace[1].dir = "LEFT" <=> (~WasAbove /\ ~WasBelow /\ ~WasLeftOf /\ WasRightOf)
    /\ trace[1].dir = "undefined"
         <=> (~WasAbove /\ ~WasBelow /\ ~WasLeftOf /\ ~WasRightOf)

\* A diagonal approach: a was above b and left of b, and DOWN won.
C15_Witness ==
  /\ RespondedOnRectangles
  /\ WasAbove
  /\ WasLeftOf
  /\ trace[1].called
  /\ trace[1].dir = "DOWN"

\* C16: hitResponse(a, b) only moves a.  It leaves b's position, last
\* position and velocity and a's velocity and last position as they were,
\* and for a rectangle pair it changes at most the one coordinate of
\* a.position on the winning axis: y for DOWN and UP, x for RIGHT and LEFT,
\* none for 'inside'.
C16_Step ==
  (op.name = "other" /\ op'.name = "hitResponse") =>
    /\ body'["b"].position = body["b"].position
    /\ body'["b"].last = body["b"].last
    /\ body'["b"].velocity = body["b"].velocity
    /\ body'["a"].velocity = body["a"].velocity
    /\ body'["a"].last = body["a"].last
    /\ (body["a"].shape.kind = "Rectangle" /\ body["b"].shape.kind = "Rectangle") =>
         /\ trace'[1].dir \in {"DOWN", "UP"} =>
              body'["a"].position.x = body["a"].position.x
         /\ trace'[1].dir \in {"RIGHT", "LEFT"} =>
              body'["a"].position.y = body["a"].position.y
         /\ trace'[1].dir = "undefined" => body'["a"].position = body["a"].position

C16_OnlyMovesA == [][C16_Step]_vars

\* hitResponse pushed a rectangle out to the left of another: x changed, y,
\* which differs from b's, did not.
C16_Witness ==
  /\ RespondedOnRectangles
  /\ trace[1].res = "true"
  /\ trace[1].dir = "RIGHT"
  /\ body["a"].position.x # trace[1].before.position.x
  /\ body["a"].position.y = trace[1].before.position.y
  /\ body["a"].position.y # body["b"].position.y

(***************************************************************************)
(* The solver on rectangles whose coordinates are decimal fractions, in    *)
(* doubles: positions are not doubled here, position.y + height/2 is       *)
(* Plus(position.y, Half(Number(height))).                                 *)
(***************************************************************************)
\* shape.width / 2, shape.height / 2 for a whole width or height
HalfOf(n) == Half(Number(n))

\* part_000 175-180: rectangle against rectangle.
RectRectHitInDoubles(a, b) ==
  ~ \/ LessEq(Plus(a.position.y, HalfOf(a.shape.height)),
              Minus(b.position.y, HalfOf(b.shape.height)))
    \/ LessEq(Plus(b.position.y, HalfOf(b.shape.height)),
              Minus(a.position.y, HalfOf(a.shape.height)))
    \/ LessEq(Plus(b.position.x, HalfOf(b.shape.width)),
              Minus(a.position.x, HalfOf(a.shape.width)))
    \/ LessEq(Plus(a.position.x, HalfOf(a.shape.width)),
              Minus(b.position.x, HalfOf(b.shape.width)))

\* hitTest for a pair of rectangles (width and height not 0).
hitTestInDoubles(a, b) == Bool(RectRectHitInDoubles(a, b))

\* part_000 210, 215, 220, 225
DirectionInDoubles(a, b) ==
  IF LessEq(Plus(a.last.y, HalfOf(a.shape.height)),
            Minus(b.last.y, HalfOf(b.shape.height))) THEN "DOWN"
  ELSE IF LessEq(Plus(b.last.y, HalfOf(b.shape.height)),
                 Minus(a.last.y, HalfOf(a.shape.height))) THEN "UP"
  ELSE IF LessEq(Plus(a.last.x, HalfOf(a.shape.width)),
                 Minus(b.last.x, HalfOf(b.shape.width))) THEN "RIGHT"
  ELSE IF LessEq(Plus(b.last.x, HalfOf(b.shape.width)),
                 Minus(a.last.x, HalfOf(a.shape.width))) THEN "LEFT"
  ELSE "undefined"

\* part_000 212, 217, 222, 227
SnapInDoubles(a, b, dir) ==
  CASE dir = "DOWN"  ->
         Vec(a.position.x, Minus(Minus(b.position.y, HalfOf(b.shape.height)),
                                 HalfOf(a.shape.height)))
    [] dir = "UP"    ->
         Vec(a.position.x, Plus(Plus(b.position.y, HalfOf(b.shape.height)),
                                HalfOf(a.shape.height)))
    [] dir = "RIGHT" ->
         Vec(Minus(Minus(b.position.x, HalfOf(b.shape.width)),
                   HalfOf(a.shape.width)), a.position.y)
    [] dir = "LEFT"  ->
         Vec(Plus(Plus(b.position.x, HalfOf(b.shape.width)),
                  HalfOf(a.shape.width)), a.position.y)
    [] OTHER         -> a.position

\* hitResponse for a pair of rectangles.
hitResponseInDoubles(a, b) ==
  LET dir == DirectionInDoubles(a, b)
  IN IF BodyCollide(a, b, dir)
     THEN [a |-> [a EXCEPT !.position = SnapInDoubles(a, b, dir)],
           result |-> "true", called |-> TRUE, dir |-> dir]
     ELSE [a |-> a, result |-> "undefined", called |-> TRUE, dir |-> dir]

\* The y coordinates of a (position and last) are the tenths from
\* -MaxTenth/10 to 0, those of b the tenths from 0 to MaxTenthOfB/10; b stands
\* still; both are centred on x = 0 and 1 wide.
MaxTenth == 20
MaxTenthOfB == 1
HeightChoices == {1, 3}

Tenth(k) == Quotient(k, 10)

DecimalInit ==
  /\ \E ya \in 0..MaxTenth, la \in 0..MaxTenth, yb \in 0..MaxTenthOfB,
        ha \in HeightChoices, hb \in HeightChoices, acc \in BOOLEAN :
       LET a == SolverBody(Rectangle(1, ha), Vec(Zero, Tenth(-ya)),
                           Vec(Zero, Tenth(-la)), acc)
           b == SolverBody(Rectangle(1, hb), Vec(Zero, Tenth(yb)),
                           Vec(Zero, Tenth(yb)), TRUE)
       IN body = [n \in {"a", "b"} |-> IF n = "a" THEN a ELSE b]
  /\ bodies = << >>
  /\ collisionGroups = << >>
  /\ trace = << >>
  /\ thrown = FALSE
  /\ op = [name |-> "other", arg |-> "none", unowned |-> FALSE]
  /\ desiredFPS = 60
  /\ spiraling = 0
  /\ last = -1
  /\ realDelta = 0
  /\ deltaTime = 0
  /\ lastCount = 0
  /\ count = 0
  /\ calls = << >>
  /\ hist = << >>

\* solver.hitTest(a, b)
HitTestInDoubles ==
  /\ op.name = "other"
  /\ trace' = << [ev |-> "hitTest", a |-> "a", b |-> "b",
                  res |-> hitTestInDoubles(body["a"], body["b"])] >>
  /\ op' = [name |-> "hitTest", arg |-> "none", unowned |-> FALSE]
  /\ UNCHANGED <<body, bodies, collisionGroups, thrown>>
  /\ UNCHANGED <<desiredFPS, spiraling, last, realDelta, deltaTime, lastCount, count,
                 calls, hist>>

\* solver.hitResponse(a, b)
HitResponseInDoubles ==
  /\ op.name = "other"
  /\ LET r == hitResponseInDoubles(body["a"], body["b"])
     IN /\ body' = [body EXCEPT !["a"] = r.a]
        /\ trace' = << [ev |-> "hitResponse", a |-> "a", b |-> "b", res |-> r.result,
                        called |-> r.called, dir |-> r.dir, before |-> body["a"]] >>
  /\ op' = [name |-> "hitResponse", arg |-> "none", unowned |-> FALSE]
  /\ UNCHANGED <<bodies, collisionGroups, thrown>>
  /\ UNCHANGED <<desiredFPS, spiraling, last, realDelta, deltaTime, lastCount, count,
                 calls, hist>>

DecimalNext == HitTestInDoubles \/ HitResponseInDoubles

SpecDecimal == DecimalInit /\ [][DecimalNext]_vars

(***************************************************************************)
(* Properties of the solver.                                               *)
(***************************************************************************)
\* hitResponse was called on two rectangles that overlapped, a having been
\* above b at the last positions, and a.collide accepts.
FellOnto ==
  /\ op.name = "hitResponse"
  /\ hitTestInDoubles(trace[1].before, body["b"]) = "true"
  /\ LessEq(Plus(trace[1].before.last.y, HalfOf(body["a"].shape.height)),
            Minus(body["b"].last.y, HalfOf(body["b"].shape.height)))
  /\ body["a"].accepts

\* C10: for overlapping rectangles with a.last.y + heightA/2 <= b.last.y -
\* heightB/2 and a.collide accepting, hitResponse(a, b) calls a.collide(b,
\* 'DOWN'), sets a.position.y to b.position.y - heightB/2 - heightA/2, returns
\* true, and hitTest(a, b) is false afterwards.  Checked under SpecDecimal.
C10_PushOutDown ==
  FellOnto =>
    /\ trace[1].called
    /\ trace[1].dir = "DOWN"
    /\ trace[1].res = "true"
    /\ body["a"].position.y
         = Minus(Minus(body["b"].position.y, HalfOf(body["b"].shape.height)),
                 HalfOf(body["a"].shape.height))
    /\ hitTestInDoubles(body["a"], body["b"]) = "false"

====
